---- MODULE Spec2Model ----
(***************************************************************************)
(* A model of the tour-assignment and data-preparation code of             *)
(* corona_drones: lpt, run_IP, compute_jobs_durations and the report of    *)
(* main (assign_tours.py), compute_distance_matrix, near_split,            *)
(* split_dense_points and the distance-matrix cache of create_data_model   *)
(* (prepare_data.py).                                                      *)
(*                                                                         *)
(* Python lists are sequences; the indices the code stores in them (job    *)
(* indices, drone indices, point indices) keep Python's 0-based values, so *)
(* element i of a list s is s[i + 1] (At(s, i)).  A Python dict is the     *)
(* sequence of its (key, value) entries in insertion order.                *)
(***************************************************************************)
EXTENDS Integers, Sequences, FiniteSets, TLC

\* ---------------------------------------------------------------- bounds
\* lpt's inputs: up to MaxDrones drones and MaxJobs jobs of duration
\* 0 .. MaxDuration (more drones than jobs included)
MaxDrones == 3
MaxJobs == 4
MaxDuration == 3
\* lpt's inputs where its makespan is compared with the optimum
MaxDronesOpt == 2
MaxJobsOpt == 5
\* compute_distance_matrix's inputs: up to MaxPoints points on the grid
\* (0 .. MaxCoord) x (0 .. MaxCoord)
MaxPoints == 3
MaxCoord == 1
\* split_dense_points' inputs: up to MaxOrigPoints points of population
\* 0 .. MaxPopulation, and a cap of at most MaxCap
MaxOrigPoints == 2
MaxPopulation == 5
MaxCap == 3
\* the geojson file read by load_data holds up to MaxFeatures features
MaxFeatures == 1
\* compute_jobs_durations' inputs: up to MaxRoutes routes with up to
\* MaxTourStops stops in all
MaxRoutes == 2
MaxTourStops == 4
\* run_IP's inputs: up to MaxDronesIP drones and MaxJobsIP jobs
MaxDronesIP == 2
MaxJobsIP == 2

\* ------------------------------------------------------------ list helpers
At(s, i) == s[i + 1]

Range0(n) == 0 .. (n - 1)

RECURSIVE SumSeq(_)
SumSeq(s) == IF s = <<>> THEN 0 ELSE Head(s) + SumSeq(Tail(s))

RECURSIVE MaxSeq(_)
MaxSeq(s) ==
    IF s = <<>> THEN 0
    ELSE LET m == MaxSeq(Tail(s)) IN IF Head(s) > m THEN Head(s) ELSE m

RECURSIVE CountIn(_, _)
CountIn(s, e) ==
    IF s = <<>> THEN 0
    ELSE (IF Head(s) = e THEN 1 ELSE 0) + CountIn(Tail(s), e)

RECURSIVE SeqsUpTo(_, _)
SeqsUpTo(S, n) ==
    IF n = 0 THEN {<<>>}
    ELSE LET shorter == SeqsUpTo(S, n - 1)
         IN shorter \cup {Append(s, e) : s \in {t \in shorter : Len(t) = n - 1}, e \in S}

\* ------------------------------------------------------------------ numpy
\* s[::-1]
ReverseKeepsOrder(s) == s

Reverse(s) == [k \in 1 .. Len(s) |-> s[Len(s) + 1 - k]]

RECURSIVE PermsOf(_)
PermsOf(S) ==
    IF S = {} THEN {<<>>}
    ELSE UNION {{<<e>> \o p : p \in PermsOf(S \ {e})} : e \in S}

\* np.argsort(a) with the default kind ('quicksort', which numpy documents as
\* not stable): some permutation of the 0-based indices that puts the values
\* in ascending order; the order of indices of equal values is not specified,
\* so every such permutation is a possible outcome.
RECURSIVE ArgsortsFrom(_, _)
ArgsortsFrom(a, v) ==
    IF v > MaxSeq(a) THEN {<<>>}
    ELSE {p \o q : p \in PermsOf({j \in Range0(Len(a)) : At(a, j) = v}),
                   q \in ArgsortsFrom(a, v + 1)}

NpArgsort(a) == ArgsortsFrom(a, 0)

\* np.sort(a): the values in ascending order.
NpSortKeepsOrder(a) == a

RECURSIVE SortedFrom(_, _)
SortedFrom(a, v) ==
    IF v > MaxSeq(a) THEN <<>>
    ELSE [k \in 1 .. CountIn(a, v) |-> v] \o SortedFrom(a, v + 1)

NpSort(a) == SortedFrom(a, 0)

\* np.zeros(n)
NpZeros(n) == [k \in 1 .. n |-> 0]

\* np.zeros((n, m)): a list of n rows
NpZeros2(n, m) == [r \in 1 .. n |-> [c \in 1 .. m |-> 0]]

\* m[r, c] = v
MatSet(m, r, c, v) == [m EXCEPT ![r + 1][c + 1] = v]

MatGet(m, r, c) == m[r + 1][c + 1]

Abs(n) == IF n < 0 THEN 0 - n ELSE n

\* np.argmin(b): the index of the first occurrence of the minimum.
ArgMinFirstIndex(b) == 0

ArgMinLastOccurrence(b) ==
    CHOOSE w \in Range0(Len(b)) :
        /\ \A v \in Range0(Len(b)) : At(b, w) <= At(b, v)
        /\ \A v \in Range0(Len(b)) : v > w => At(b, v) > At(b, w)

NpArgmin(b) ==
    CHOOSE w \in Range0(Len(b)) :
        /\ \A v \in Range0(Len(b)) : At(b, w) <= At(b, v)
        /\ \A v \in Range0(Len(b)) : v < w => At(b, v) > At(b, w)

\* ------------------------------------------------------------------- dict
DictKeys(d) == {d[k].key : k \in 1 .. Len(d)}

DictHas(d, key) == key \in DictKeys(d)

DictGet(d, key) == d[CHOOSE k \in 1 .. Len(d) : d[k].key = key].value

\* d[key] = value: a new key goes to the end, an old one keeps its place.
DictSetNewKeyFirst(d, key, value) ==
    IF DictHas(d, key)
    THEN [k \in 1 .. Len(d) |-> IF d[k].key = key
                                THEN [key |-> key, value |-> value] ELSE d[k]]
    ELSE <<[key |-> key, value |-> value]>> \o d

DictSet(d, key, value) ==
    IF DictHas(d, key)
    THEN [k \in 1 .. Len(d) |-> IF d[k].key = key
                                THEN [key |-> key, value |-> value] ELSE d[k]]
    ELSE Append(d, [key |-> key, value |-> value])

\* ---------------------------------------------------------------- state
VARIABLES
    \* lpt (assign_tours.py)
    pc,                \* where lpt is: "idle", "start", "loop", "done"
    number_of_drones,  \* lpt's first argument
    jobs,              \* lpt's second argument, the job durations
    original_indices,  \* np.argsort(jobs)[::-1]
    sorted_jobs,       \* np.sort(jobs)[::-1]
    i,                 \* the loop index of lpt's scan
    bins,              \* the running load of every drone
    jobs_assignment,   \* the dict drone -> list of job indices
    \* compute_distance_matrix (prepare_data.py)
    geo_pc,            \* "idle", "outer", "inner", "done"
    all_points,        \* its argument
    distance_matrix,   \* the matrix it fills
    x,                 \* the outer loop index
    y,                 \* the inner loop index
    geodesic_calls,    \* the index pairs distance() was called for
    written,           \* the cells assigned so far
    \* split_dense_points (prepare_data.py)
    orig_points,            \* its arguments
    orig_distance_matrix,
    max_point_capacity,
    split_result,           \* what the call ended with
    \* create_data_model (prepare_data.py), called one call after the other
    cache_file,        \* results/distance_matrix.p
    prev_call,         \* the call before the last one
    last_call,         \* the last call
    \* create_data_model, called by two callers at once
    features,          \* the features of centroids100x100.geojson
    caller_pc,         \* each caller's place in create_data_model
    caller_matrix,     \* each caller's local distance_matrix
    caller_computed,   \* whether the caller ran compute_distance_matrix
    \* compute_jobs_durations (assign_tours.py); the list it builds is jobs
    tours_pc,          \* "idle", "start", "loop", "done"
    tours,             \* its argument
    \* run_IP (assign_tours.py); its number_of_drones, jobs_assignment and
    \* bins are the variables of these names
    ip_pc,             \* "idle", "start", "solved", "done"
    jobs_durations,    \* its second argument
    jobs_to_drones     \* the .X of every variable after m.optimize()

lptVars == <<pc, number_of_drones, jobs, original_indices, sorted_jobs, i, bins,
             jobs_assignment>>

geoVars == <<geo_pc, all_points, distance_matrix, x, y, geodesic_calls, written>>

splitVars == <<orig_points, orig_distance_matrix, max_point_capacity, split_result>>

cacheVars == <<cache_file, prev_call, last_call>>

callerVars == <<features, caller_pc, caller_matrix, caller_computed>>

tourVars == <<tours_pc, tours>>

ipVars == <<ip_pc, jobs_durations, jobs_to_drones>>

vars == <<lptVars, geoVars, splitVars, cacheVars, callerVars, tourVars, ipVars>>

NoCall == [status |-> "none"]

NoFile == [kind |-> "absent", matrix |-> <<>>, from |-> <<>>]

LptIdle ==
    /\ pc = "idle"
    /\ number_of_drones = 1
    /\ jobs = <<>>
    /\ original_indices = <<>>
    /\ sorted_jobs = <<>>
    /\ i = 0
    /\ bins = <<>>
    /\ jobs_assignment = <<>>

GeoIdle ==
    /\ geo_pc = "idle"
    /\ all_points = <<>>
    /\ distance_matrix = <<>>
    /\ x = 0
    /\ y = 0
    /\ geodesic_calls = {}
    /\ written = {}

SplitIdle ==
    /\ orig_points = <<>>
    /\ orig_distance_matrix = <<>>
    /\ max_point_capacity = 1
    /\ split_result = NoCall

CacheIdle ==
    /\ cache_file = NoFile
    /\ prev_call = NoCall
    /\ last_call = NoCall

CallersIdle ==
    /\ features = <<>>
    /\ caller_pc = <<>>
    /\ caller_matrix = <<>>
    /\ caller_computed = <<>>

ToursIdle ==
    /\ tours_pc = "idle"
    /\ tours = [routes |-> <<>>]

IpIdle ==
    /\ ip_pc = "idle"
    /\ jobs_durations = <<>>
    /\ jobs_to_drones = <<>>

\* ------------------------------------------------------------------- lpt
\* if min_bin_index not in jobs_assignment: jobs_assignment[min_bin_index] = []
\* jobs_assignment[min_bin_index].append(job_original_index)
AssignOverwrites(d, drone, job) == DictSet(d, drone, <<job>>)

AssignJob(d, drone, job) ==
    LET created == IF DictHas(d, drone) THEN d ELSE DictSet(d, drone, <<>>)
    IN DictSet(created, drone, Append(DictGet(created, drone), job))

Durations == 0 .. MaxDuration

InitLpt ==
    /\ pc = "start"
    /\ number_of_drones \in 1 .. MaxDrones
    /\ jobs \in SeqsUpTo(Durations, MaxJobs)
    /\ original_indices = <<>>
    /\ sorted_jobs = <<>>
    /\ i = 0
    /\ bins = <<>>
    /\ jobs_assignment = <<>>
    /\ GeoIdle /\ SplitIdle /\ CacheIdle /\ CallersIdle /\ ToursIdle /\ IpIdle

\* lines 78-82
LptSort ==
    /\ pc = "start"
    /\ bins' = NpZeros(number_of_drones)
    /\ jobs_assignment' = <<>>
    /\ \E p \in NpArgsort(jobs) : original_indices' = Reverse(p)
    /\ sorted_jobs' = Reverse(NpSort(jobs))
    /\ i' = 0
    /\ pc' = "loop"
    /\ UNCHANGED <<number_of_drones, jobs>>
    /\ UNCHANGED <<geoVars, splitVars, cacheVars, callerVars, tourVars, ipVars>>

\* lines 84-95, one iteration of the scan
LptStep ==
    /\ pc = "loop"
    /\ i < Len(original_indices)
    /\ LET job_length == At(sorted_jobs, i)
           job_original_index == At(original_indices, i)
           min_bin_index == NpArgmin(bins)
       IN /\ bins' = [bins EXCEPT ![min_bin_index + 1] = @ + job_length]
          /\ jobs_assignment' = AssignJob(jobs_assignment, min_bin_index,
                                          job_original_index)
    /\ i' = i + 1
    /\ UNCHANGED <<pc, number_of_drones, jobs, original_indices, sorted_jobs>>
    /\ UNCHANGED <<geoVars, splitVars, cacheVars, callerVars, tourVars, ipVars>>

\* line 97
LptReturn ==
    /\ pc = "loop"
    /\ i = Len(original_indices)
    /\ pc' = "done"
    /\ UNCHANGED <<number_of_drones, jobs, original_indices, sorted_jobs, i, bins,
                   jobs_assignment>>
    /\ UNCHANGED <<geoVars, splitVars, cacheVars, callerVars, tourVars, ipVars>>

NextLpt == LptSort \/ LptStep \/ LptReturn

SpecLpt == InitLpt /\ [][NextLpt]_vars

\* The same program on the inputs on which the optimum is brute-forced.
InitMakespan ==
    /\ pc = "start"
    /\ number_of_drones \in 1 .. MaxDronesOpt
    /\ jobs \in SeqsUpTo(Durations, MaxJobsOpt)
    /\ original_indices = <<>>
    /\ sorted_jobs = <<>>
    /\ i = 0
    /\ bins = <<>>
    /\ jobs_assignment = <<>>
    /\ GeoIdle /\ SplitIdle /\ CacheIdle /\ CallersIdle /\ ToursIdle /\ IpIdle

SpecMakespan == InitMakespan /\ [][NextLpt]_vars

\* main, lines 134-139: the entry of the schedule report for one number of
\* drones; the job lists are the dict's values in the dict's order.
ScheduleReport(drones, assignment, loads) ==
    [number_of_drones |-> drones,
     jobs_assignment |-> [k \in 1 .. Len(assignment) |-> assignment[k].value],
     bins |-> loads]

\* ------------------------------------------------ compute_distance_matrix
\* A point of the grid; load_data's points carry lon, lat and Population.
Point(lat, lon, population) == [lat |-> lat, lon |-> lon, Population |-> population]

\* line 76: the test that sends a pair to the geodesic function
CoordinatesDiffer(p1, p2) == Abs(p1.lat - p2.lat) > 0 \/ Abs(p1.lon - p2.lon) > 0

\* line 77: distance((lat1, lon1), (lat2, lon2)).m of geopy, on the grid: a
\* positive number of metres for two different places, the same in both
\* directions.
Geodesic(p1, p2) == 100 * (Abs(p1.lat - p2.lat) + Abs(p1.lon - p2.lon))

\* lines 76-79
PairDistance(p1, p2) == IF CoordinatesDiffer(p1, p2) THEN Geodesic(p1, p2) ELSE 0

\* lines 81-82
WritePairUpperOnly(m, r, c, dist) == MatSet(m, r, c, dist)

WritePair(m, r, c, dist) == MatSet(MatSet(m, r, c, dist), c, r, dist)

\* the cells lines 81-82 assign
WrittenCells(r, c) == {<<r, c>>, <<c, r>>}

GridPoints == {Point(a, b, 0) : a \in 0 .. MaxCoord, b \in 0 .. MaxCoord}

InitGeo ==
    /\ geo_pc = "outer"
    /\ all_points \in SeqsUpTo(GridPoints, MaxPoints)
    /\ distance_matrix = NpZeros2(Len(all_points), Len(all_points))
    /\ x = 0
    /\ y = 0
    /\ geodesic_calls = {}
    /\ written = {}
    /\ LptIdle /\ SplitIdle /\ CacheIdle /\ CallersIdle /\ ToursIdle /\ IpIdle

\* lines 71-73: the outer loop takes its next x and starts the inner loop
GeoOuter ==
    /\ geo_pc = "outer"
    /\ x < Len(all_points)
    /\ y' = x + 1
    /\ geo_pc' = "inner"
    /\ UNCHANGED <<all_points, distance_matrix, x, geodesic_calls, written>>
    /\ UNCHANGED <<lptVars, splitVars, cacheVars, callerVars, tourVars, ipVars>>

\* lines 74-82: one pair
GeoPair ==
    /\ geo_pc = "inner"
    /\ y < Len(all_points)
    /\ LET p1 == At(all_points, x)
           p2 == At(all_points, y)
           dist == PairDistance(p1, p2)
       IN /\ distance_matrix' = WritePair(distance_matrix, x, y, dist)
          /\ geodesic_calls' = IF CoordinatesDiffer(p1, p2)
                               THEN geodesic_calls \cup {<<x, y>>}
                               ELSE geodesic_calls
          /\ written' = written \cup WrittenCells(x, y)
    /\ y' = y + 1
    /\ UNCHANGED <<geo_pc, all_points, x>>
    /\ UNCHANGED <<lptVars, splitVars, cacheVars, callerVars, tourVars, ipVars>>

\* the inner loop is exhausted
GeoInnerEnd ==
    /\ geo_pc = "inner"
    /\ y >= Len(all_points)
    /\ x' = x + 1
    /\ geo_pc' = "outer"
    /\ UNCHANGED <<all_points, distance_matrix, y, geodesic_calls, written>>
    /\ UNCHANGED <<lptVars, splitVars, cacheVars, callerVars, tourVars, ipVars>>

\* line 84
GeoReturn ==
    /\ geo_pc = "outer"
    /\ x >= Len(all_points)
    /\ geo_pc' = "done"
    /\ UNCHANGED <<all_points, distance_matrix, x, y, geodesic_calls, written>>
    /\ UNCHANGED <<lptVars, splitVars, cacheVars, callerVars, tourVars, ipVars>>

NextGeo == GeoOuter \/ GeoPair \/ GeoInnerEnd \/ GeoReturn

SpecGeo == InitGeo /\ [][NextGeo]_vars

\* The pairs in the order the two loops take them.
RECURSIVE PairsFrom(_, _, _)
PairsFrom(r, c, n) ==
    IF r >= n THEN <<>>
    ELSE IF c >= n THEN PairsFrom(r + 1, r + 2, n)
    ELSE <<<<r, c>>>> \o PairsFrom(r, c + 1, n)

RECURSIVE FillPairs(_, _, _)
FillPairs(m, pts, pairs) ==
    IF pairs = <<>> THEN m
    ELSE LET r == Head(pairs)[1]
             c == Head(pairs)[2]
         IN FillPairs(WritePair(m, r, c, PairDistance(At(pts, r), At(pts, c))),
                      pts, Tail(pairs))

\* compute_distance_matrix as one call: what it returns for a point list
ComputeDistanceMatrix(pts) ==
    FillPairs(NpZeros2(Len(pts), Len(pts)), pts, PairsFrom(0, 1, Len(pts)))

\* ------------------------------------------------------ split_dense_points
\* Python's a // b and a % b (b /= 0): floor division, remainder with the
\* divisor's sign.
PyFloorDiv(a, b) == IF b > 0 THEN a \div b ELSE (0 - a) \div (0 - b)

PyMod(a, b) == a - b * PyFloorDiv(a, b)

\* math.ceil(a / b) (b /= 0); the float quotient of two integers of this size
\* is exact enough for its ceiling to be the ceiling of the fraction.
MathCeilFloorsInstead(a, b) == PyFloorDiv(a, b)

MathCeil(a, b) == 0 - PyFloorDiv(0 - a, b)

\* [v] * n: empty when n <= 0
Repeat(v, n) == [k \in 1 .. n |-> v]

\* lines 39-41 (num_bins /= 0)
NearSplitRemainderLast(n, num_bins) ==
    LET quotient == PyFloorDiv(n, num_bins)
        remainder == PyMod(n, num_bins)
    IN Repeat(quotient, num_bins - 1) \o Repeat(quotient + remainder, 1)

NearSplitSmallerFirst(n, num_bins) ==
    LET quotient == PyFloorDiv(n, num_bins)
        remainder == PyMod(n, num_bins)
    IN Repeat(quotient, num_bins - remainder) \o Repeat(quotient + 1, remainder)

NearSplit(n, num_bins) ==
    LET quotient == PyFloorDiv(n, num_bins)
        remainder == PyMod(n, num_bins)
    IN Repeat(quotient + 1, remainder) \o Repeat(quotient, num_bins - remainder)

\* lines 103-114: what one input point adds to points; a division by zero
\* (line 106 for a cap of 0, divmod in line 39 for num_bins = 0) raises.
SplitPoint(point, cap) ==
    IF point.Population > 0
    THEN IF cap = 0 \/ MathCeil(point.Population, cap) = 0
         THEN [status |-> "ZeroDivisionError", points |-> <<>>]
         ELSE LET num_bins == MathCeil(point.Population, cap)
                  parts == NearSplit(point.Population, num_bins)
              IN [status |-> "ok",
                  points |-> [k \in 1 .. Len(parts) |->
                                 [point EXCEPT !.Population = parts[k]]]]
    ELSE [status |-> "ok", points |-> <<point>>]

\* lines 99-114: the loop over orig_points from index n on
RECURSIVE SplitFrom(_, _, _)
SplitFrom(pts, cap, n) ==
    IF n >= Len(pts)
    THEN [status |-> "ok", points |-> <<>>, indices_of_orig_points |-> <<>>]
    ELSE LET one == SplitPoint(At(pts, n), cap)
             rest == SplitFrom(pts, cap, n + 1)
         IN IF one.status # "ok"
            THEN [status |-> one.status, points |-> <<>>,
                  indices_of_orig_points |-> <<>>]
            ELSE [status |-> rest.status,
                  points |-> one.points \o rest.points,
                  indices_of_orig_points |->
                      Repeat(n, Len(one.points)) \o rest.indices_of_orig_points]

\* lines 116-120: the expanded matrix; an origin index outside the matrix
\* given raises numpy's IndexError.
ExpandMatrixTransposed(matrix, indices) ==
    [r \in 1 .. Len(indices) |-> [c \in 1 .. Len(indices) |->
        MatGet(matrix, indices[c], indices[r])]]

ExpandMatrix(matrix, indices) ==
    [r \in 1 .. Len(indices) |-> [c \in 1 .. Len(indices) |->
        MatGet(matrix, indices[r], indices[c])]]

IndexInMatrix(matrix, r, c) == r < Len(matrix) /\ c < Len(matrix[r + 1])

\* lines 99-122
SplitDensePoints(pts, matrix, cap) ==
    LET split == SplitFrom(pts, cap, 0)
        indices == split.indices_of_orig_points
        failed(status) == [status |-> status, points |-> <<>>,
                           indices_of_orig_points |-> <<>>, distance_matrix |-> <<>>]
    IN IF split.status # "ok" THEN failed(split.status)
       ELSE IF \E r, c \in 1 .. Len(indices) :
                   ~IndexInMatrix(matrix, indices[r], indices[c])
       THEN failed("IndexError")
       ELSE [status |-> "ok",
             points |-> split.points,
             indices_of_orig_points |-> indices,
             distance_matrix |-> ExpandMatrix(matrix, indices)]

\* the places of the points split_dense_points is given
SplitSites == {<<0, 0>>, <<1, 0>>}

DensePoints == {Point(site[1], site[2], n) : site \in SplitSites, n \in 0 .. MaxPopulation}

\* a matrix whose entries all differ, and differ from their mirror and from 0
CodedMatrix(n) == [r \in 1 .. n |-> [c \in 1 .. n |-> n * (r - 1) + c]]

\* the caps create_data_model passes on unchecked: negative, zero, positive
Caps == (0 - 1) .. MaxCap

InitSplit ==
    /\ orig_points \in SeqsUpTo(DensePoints, MaxOrigPoints)
    /\ orig_distance_matrix \in
           {ComputeDistanceMatrix(orig_points), CodedMatrix(Len(orig_points))}
    /\ max_point_capacity \in Caps
    /\ split_result = NoCall
    /\ LptIdle /\ GeoIdle /\ CacheIdle /\ CallersIdle /\ ToursIdle /\ IpIdle

\* lines 87-122
SplitCall ==
    /\ split_result = NoCall
    /\ split_result' = SplitDensePoints(orig_points, orig_distance_matrix,
                                        max_point_capacity)
    /\ UNCHANGED <<orig_points, orig_distance_matrix, max_point_capacity>>
    /\ UNCHANGED <<lptVars, geoVars, cacheVars, callerVars, tourVars, ipVars>>

NextSplit == SplitCall

SpecSplit == InitSplit /\ [][NextSplit]_vars

\* -------------------------------------------------------------- load_data
\* line 24, on the grid
HOSPITAL == Point(0, 0, 0)

\* lines 50-60: the hospital, then every feature with TotBef > 0
RECURSIVE PopulatedPoints(_)
PopulatedPoints(fs) ==
    IF fs = <<>> THEN <<>>
    ELSE (IF Head(fs).TotBef > 0
          THEN <<Point(Head(fs).lat, Head(fs).lon, Head(fs).TotBef)>>
          ELSE <<>>) \o PopulatedPoints(Tail(fs))

LoadData(fs) == <<HOSPITAL>> \o PopulatedPoints(fs)

\* the features centroids100x100.geojson may hold
Features == {[lat |-> site[1], lon |-> site[2], TotBef |-> n] :
                site \in SplitSites, n \in 0 .. 1}

FeatureLists == SeqsUpTo(Features, MaxFeatures)

\* ------------------------------------------------------ create_data_model
\* results/distance_matrix.p: absent, or holding a pickled matrix (from: the
\* point list it was computed from), or opened for writing and still empty,
\* or holding bytes that are no pickle.
PickleFile(matrix, pts) == [kind |-> "pickle", matrix |-> matrix, from |-> pts]

EmptyFile == [kind |-> "empty", matrix |-> <<>>, from |-> <<>>]

CorruptFile == [kind |-> "corrupt", matrix |-> <<>>, from |-> <<>>]

\* line 131
PathExists(file) == file.kind # "absent"

\* lines 128-139: the distance matrix of one call, and the file it leaves
CachedMatrixNeverStored(file, pts, use_cache) ==
    IF use_cache /\ PathExists(file)
    THEN IF file.kind = "pickle"
         THEN [status |-> "ok", file |-> file, computed |-> FALSE,
               distance_matrix |-> file.matrix]
         ELSE [status |-> "UnpicklingError", file |-> file, computed |-> FALSE,
               distance_matrix |-> <<>>]
    ELSE [status |-> "ok", file |-> file, computed |-> TRUE,
          distance_matrix |-> ComputeDistanceMatrix(pts)]

CachedMatrix(file, pts, use_cache) ==
    IF use_cache
    THEN IF ~PathExists(file)
         THEN LET matrix == ComputeDistanceMatrix(pts)
              IN [status |-> "ok", file |-> PickleFile(matrix, pts),
                  computed |-> TRUE, distance_matrix |-> matrix]
         ELSE IF file.kind = "pickle"
         THEN [status |-> "ok", file |-> file, computed |-> FALSE,
               distance_matrix |-> file.matrix]
         ELSE \* pickle.load raises (EOFError, UnpicklingError)
              [status |-> "UnpicklingError", file |-> file, computed |-> FALSE,
               distance_matrix |-> <<>>]
    ELSE [status |-> "ok", file |-> file, computed |-> TRUE,
          distance_matrix |-> ComputeDistanceMatrix(pts)]

\* lines 125-148: one whole call
CreateDataModel(file, fs, cap, use_cache) ==
    LET pts == LoadData(fs)
        looked == CachedMatrix(file, pts, use_cache)
        data == IF looked.status = "ok"
                THEN SplitDensePoints(pts, looked.distance_matrix, cap)
                ELSE [status |-> looked.status]
    IN [file |-> looked.file,
        call |-> [status |-> data.status,
                  all_points |-> pts,
                  use_cache |-> use_cache,
                  computed |-> looked.computed,
                  distance_matrix |-> looked.distance_matrix]]

InitCache ==
    /\ cache_file \in {NoFile, CorruptFile}
    /\ prev_call = NoCall
    /\ last_call = NoCall
    /\ LptIdle /\ GeoIdle /\ SplitIdle /\ CallersIdle /\ ToursIdle /\ IpIdle

\* create_data_model called again, after the call before it has ended
CreateDataModelCall ==
    /\ \E fs \in FeatureLists, cap \in Caps, use_cache \in BOOLEAN :
          LET r == CreateDataModel(cache_file, fs, cap, use_cache)
          IN /\ cache_file' = r.file
             /\ last_call' = r.call
    /\ prev_call' = last_call
    /\ UNCHANGED <<lptVars, geoVars, splitVars, callerVars, tourVars, ipVars>>

NextCache == CreateDataModelCall

SpecCache == InitCache /\ [][NextCache]_vars

\* ------------------------------------- create_data_model, two callers at once
Callers == {1, 2}

InitCallers ==
    /\ features \in FeatureLists
    /\ max_point_capacity \in Caps
    /\ cache_file = NoFile
    /\ caller_pc = [c \in Callers |-> "start"]
    /\ caller_matrix = [c \in Callers |-> <<>>]
    /\ caller_computed = [c \in Callers |-> FALSE]
    /\ orig_points = <<>>
    /\ orig_distance_matrix = <<>>
    /\ split_result = NoCall
    /\ prev_call = NoCall
    /\ last_call = NoCall
    /\ LptIdle /\ GeoIdle /\ ToursIdle /\ IpIdle

CallerUnchanged ==
    UNCHANGED <<lptVars, geoVars, splitVars, prev_call, last_call, features,
                tourVars, ipVars>>

\* line 126
CallerLoad(c) ==
    /\ caller_pc[c] = "start"
    /\ caller_pc' = [caller_pc EXCEPT ![c] = "check"]
    /\ UNCHANGED <<cache_file, caller_matrix, caller_computed>>
    /\ CallerUnchanged

\* line 131
CallerCheck(c) ==
    /\ caller_pc[c] = "check"
    /\ caller_pc' = [caller_pc EXCEPT ![c] =
                        IF PathExists(cache_file) THEN "read" ELSE "compute"]
    /\ UNCHANGED <<cache_file, caller_matrix, caller_computed>>
    /\ CallerUnchanged

\* line 132
CallerCompute(c) ==
    /\ caller_pc[c] = "compute"
    /\ caller_matrix' = [caller_matrix EXCEPT ![c] =
                            ComputeDistanceMatrix(LoadData(features))]
    /\ caller_computed' = [caller_computed EXCEPT ![c] = TRUE]
    /\ caller_pc' = [caller_pc EXCEPT ![c] = "open"]
    /\ UNCHANGED cache_file
    /\ CallerUnchanged

\* line 133: open(filename, 'wb') creates the file, or empties it
CallerOpen(c) ==
    /\ caller_pc[c] = "open"
    /\ cache_file' = EmptyFile
    /\ caller_pc' = [caller_pc EXCEPT ![c] = "dump"]
    /\ UNCHANGED <<caller_matrix, caller_computed>>
    /\ CallerUnchanged

\* line 134, and the end of the with block
CallerDump(c) ==
    /\ caller_pc[c] = "dump"
    /\ cache_file' = PickleFile(caller_matrix[c], LoadData(features))
    /\ caller_pc' = [caller_pc EXCEPT ![c] = "split"]
    /\ UNCHANGED <<caller_matrix, caller_computed>>
    /\ CallerUnchanged

\* lines 136-137
CallerRead(c) ==
    /\ caller_pc[c] = "read"
    /\ IF cache_file.kind = "pickle"
       THEN /\ caller_matrix' = [caller_matrix EXCEPT ![c] = cache_file.matrix]
            /\ caller_pc' = [caller_pc EXCEPT ![c] = "split"]
       ELSE /\ caller_pc' = [caller_pc EXCEPT ![c] = "error"]
            /\ UNCHANGED caller_matrix
    /\ UNCHANGED <<cache_file, caller_computed>>
    /\ CallerUnchanged

\* lines 141-148
CallerSplit(c) ==
    /\ caller_pc[c] = "split"
    /\ caller_pc' = [caller_pc EXCEPT ![c] =
           IF SplitDensePoints(LoadData(features), caller_matrix[c],
                               max_point_capacity).status = "ok"
           THEN "done" ELSE "error"]
    /\ UNCHANGED <<cache_file, caller_matrix, caller_computed>>
    /\ CallerUnchanged

NextCallers ==
    \E c \in Callers :
        \/ CallerLoad(c)
        \/ CallerCheck(c)
        \/ CallerCompute(c)
        \/ CallerOpen(c)
        \/ CallerDump(c)
        \/ CallerRead(c)
        \/ CallerSplit(c)

SpecCallers == InitCallers /\ [][NextCallers]_vars

\* ------------------------------------------------ compute_jobs_durations
speed_km_h == 60

stop_time_min == 15

stop_time_sec == stop_time_min * 60

\* distance / speed_m_s, where speed_m_s = speed_km_h*1000/(60*60). The
\* distances of the model are multiples of 50 m, which take a whole number of
\* seconds (3 s per 50 m), and the float quotient is that number.
TravelTime(distance) == (distance * 60 * 60) \div (speed_km_h * 1000)

\* A stop of a route; the code reads its lat and lon.
Stop(lat, lon) == [lat |-> lat, lon |-> lon]

\* lines 109-110: the test of a stop against the stop before it
MovedInLatitude(previous, stop) == previous.lat # stop.lat

Moved(previous, stop) == ~(previous.lat = stop.lat /\ previous.lon = stop.lon)

\* lines 105-111: number_of_stops after the iterations 1 .. stop_id
RECURSIVE CountStops(_, _)
CountStops(stops, stop_id) ==
    IF stop_id < 1 THEN 0
    ELSE CountStops(stops, stop_id - 1)
         + (IF Moved(At(stops, stop_id - 1), At(stops, stop_id)) THEN 1 ELSE 0)

NumberOfStops(stops) == CountStops(stops, Len(stops) - 1)

\* line 117
RouteDuration(route) ==
    TravelTime(route.distance) + NumberOfStops(route.stops) * stop_time_sec

\* The stops are at three places, two of which differ in one coordinate only.
TourSites == {<<0, 0>>, <<1, 0>>, <<0, 1>>}

TourStops == {Stop(s[1], s[2]) : s \in TourSites}

\* A route's distance is 0 m or 50 m.
Distances == {0, 50}

\* the routes of n stops
RoutesOfLength ==
    [n \in 0 .. MaxTourStops |->
        {[stops |-> st, distance |-> d] : st \in [1 .. n -> TourStops],
                                          d \in Distances}]

\* the lists of up to n routes with up to budget stops in all
RECURSIVE RouteLists(_, _)
RouteLists(n, budget) ==
    IF n = 0 THEN {<<>>}
    ELSE {<<>>} \cup
         UNION {{<<r>> \o rest : r \in RoutesOfLength[len],
                                 rest \in RouteLists(n - 1, budget - len)} :
                   len \in 0 .. budget}

InitJobsDurations ==
    /\ tours_pc = "start"
    /\ tours \in {[routes |-> rs] : rs \in RouteLists(MaxRoutes, MaxTourStops)}
    /\ LptIdle /\ GeoIdle /\ SplitIdle /\ CacheIdle /\ CallersIdle /\ IpIdle

JobsDurationsUnchanged ==
    UNCHANGED <<pc, number_of_drones, original_indices, sorted_jobs, i, bins,
                jobs_assignment, tours, geoVars, splitVars, cacheVars,
                callerVars, ipVars>>

\* line 103
JobsDurationsStart ==
    /\ tours_pc = "start"
    /\ jobs' = <<>>
    /\ tours_pc' = "loop"
    /\ JobsDurationsUnchanged

\* lines 105-117, one route
JobsDurationsRoute ==
    /\ tours_pc = "loop"
    /\ Len(jobs) < Len(tours.routes)
    /\ jobs' = Append(jobs, RouteDuration(tours.routes[Len(jobs) + 1]))
    /\ UNCHANGED tours_pc
    /\ JobsDurationsUnchanged

\* line 119
JobsDurationsReturn ==
    /\ tours_pc = "loop"
    /\ Len(jobs) = Len(tours.routes)
    /\ tours_pc' = "done"
    /\ UNCHANGED jobs
    /\ JobsDurationsUnchanged

NextJobsDurations == JobsDurationsStart \/ JobsDurationsRoute \/ JobsDurationsReturn

SpecJobsDurations == InitJobsDurations /\ [][NextJobsDurations]_vars

\* ----------------------------------------------------------------- run_IP
\* The .X of a variable is a number of tenths: 0 and 10 are the 0 and 1 of a
\* binary variable, 1 and 9 are these with solver noise.
\* jobs_to_drones[(drone, job)].X >= 0.8
SelectedWhenExactlyOne(value) == value = 10

Selected(value) == value >= 8

\* lines 45-58: what m.optimize() leaves in the variables. The solver stops
\* at the gap or the time limit with some incumbent, not at the optimum: the
\* variables hold any solution of the covering constraint of line 52 (every
\* job on one drone), each value up to noise. The constraint of line 53 only
\* bounds max_time_length, which the code does not read.
SolverOutcomes(drones, job_ids) ==
    {[index \in drones \X job_ids |->
         IF on[index[2]] = index[1] THEN 10 - noise[index] ELSE noise[index]] :
       on \in [job_ids -> drones],
       noise \in [drones \X job_ids -> {0, 1}]}

\* [job for job in jobs if jobs_to_drones[(drone, job)].X >= 0.8]
RECURSIVE SelectedJobs(_, _, _)
SelectedJobs(values, drone, number_of_jobs) ==
    IF number_of_jobs = 0 THEN <<>>
    ELSE LET before == SelectedJobs(values, drone, number_of_jobs - 1)
         IN IF Selected(values[<<drone, number_of_jobs - 1>>])
            THEN Append(before, number_of_jobs - 1)
            ELSE before

\* lines 60-63: the dict after the loop over the first n drones
RECURSIVE ExtractAssignment(_, _, _)
ExtractAssignment(values, n, number_of_jobs) ==
    IF n = 0 THEN <<>>
    ELSE DictSet(ExtractAssignment(values, n - 1, number_of_jobs), n - 1,
                 SelectedJobs(values, n - 1, number_of_jobs))

\* line 65
ExtractBins(values, durations, n) ==
    [k \in 1 .. n |->
        SumSeq([job \in 1 .. Len(SelectedJobs(values, k - 1, Len(durations))) |->
                   At(durations, SelectedJobs(values, k - 1, Len(durations))[job])])]

\* The job durations are 1 or 2.
InitIP ==
    /\ ip_pc = "start"
    /\ number_of_drones \in 1 .. MaxDronesIP
    /\ jobs_durations \in SeqsUpTo({1, 2}, MaxJobsIP)
    /\ jobs_to_drones = <<>>
    /\ pc = "idle"
    /\ jobs = <<>>
    /\ original_indices = <<>>
    /\ sorted_jobs = <<>>
    /\ i = 0
    /\ bins = <<>>
    /\ jobs_assignment = <<>>
    /\ GeoIdle /\ SplitIdle /\ CacheIdle /\ CallersIdle /\ ToursIdle

IPUnchanged ==
    UNCHANGED <<pc, number_of_drones, jobs, original_indices, sorted_jobs, i,
                jobs_durations, geoVars, splitVars, cacheVars, callerVars,
                tourVars>>

\* lines 45-58
IPOptimize ==
    /\ ip_pc = "start"
    /\ jobs_to_drones' \in SolverOutcomes(Range0(number_of_drones),
                                          Range0(Len(jobs_durations)))
    /\ ip_pc' = "solved"
    /\ UNCHANGED <<bins, jobs_assignment>>
    /\ IPUnchanged

\* lines 60-67
IPExtract ==
    /\ ip_pc = "solved"
    /\ jobs_assignment' = ExtractAssignment(jobs_to_drones, number_of_drones,
                                            Len(jobs_durations))
    /\ bins' = ExtractBins(jobs_to_drones, jobs_durations, number_of_drones)
    /\ ip_pc' = "done"
    /\ UNCHANGED jobs_to_drones
    /\ IPUnchanged

NextIP == IPOptimize \/ IPExtract

SpecIP == InitIP /\ [][NextIP]_vars

\* ================================================================= claims

\* ------------------------------------------------------------ optimum
\* The load of drone w and the makespan under an assignment a of the jobs js
\* (a[k] is the drone of the k-th job).
Load(a, js, w) == SumSeq([k \in 1 .. Len(js) |-> IF a[k] = w THEN js[k] ELSE 0])

Makespan(a, js, W) == MaxSeq([k \in 1 .. W |-> Load(a, js, k - 1)])

\* The least makespan over all assignments of the jobs js to W drones.
OptimalMakespan(W, js) ==
    LET spans == {Makespan(a, js, W) : a \in [1 .. Len(js) -> Range0(W)]}
    IN CHOOSE m \in spans : \A other \in spans : m <= other

\* The optimum does not depend on the order of the list: it is tabulated once
\* for every ascending list.
SortedLists == {NpSort(js) : js \in SeqsUpTo(Durations, MaxJobsOpt)}

OptimumOf == [W \in 1 .. MaxDronesOpt, js \in SortedLists |-> OptimalMakespan(W, js)]

\* how often job index job occurs in all the lists of the dict d
TimesAssigned(d, job) == SumSeq([k \in 1 .. Len(d) |-> CountIn(d[k].value, job)])

\* the durations of the job indices in list
DurationsOf(list) == [k \in 1 .. Len(list) |-> At(jobs, list[k])]

\* C1: when lpt has returned, every job index 0 .. len(jobs)-1 occurs exactly
\* once in the lists of the assignment (none missing, none twice, none under
\* two drones), the lists hold nothing else, and the keys are drones.
C1_EveryJobInExactlyOneList ==
    pc = "done" =>
        /\ \A job \in Range0(Len(jobs)) : TimesAssigned(jobs_assignment, job) = 1
        /\ \A k \in 1 .. Len(jobs_assignment) :
              /\ jobs_assignment[k].key \in Range0(number_of_drones)
              /\ \A n \in 1 .. Len(jobs_assignment[k].value) :
                    jobs_assignment[k].value[n] \in Range0(Len(jobs))

\* C1's case: lpt has returned for a list shorter than the number of drones
\* that holds a duration twice and a zero duration (two jobs of duration 0
\* on three drones).
C1_Witness ==
    /\ pc = "done"
    /\ Len(jobs) >= 2
    /\ Len(jobs) < number_of_drones
    /\ \E a, b \in 1 .. Len(jobs) : a # b /\ jobs[a] = jobs[b]
    /\ \E a \in 1 .. Len(jobs) : jobs[a] = 0

\* C2: when lpt has returned, its makespan max(bins) is at most
\* (4/3 - 1/(3W)) times the optimal makespan: 3 W max(bins) <= (4 W - 1) OPT.
C2_MakespanWithinGrahamBound ==
    pc = "done" =>
        3 * number_of_drones * MaxSeq(bins)
            <= (4 * number_of_drones - 1) * OptimumOf[number_of_drones, NpSort(jobs)]

\* C2's case: lpt has returned a makespan above the optimum, and the bound is
\* met with equality (jobs 3,3,2,2,2 on two drones: 7 against 6).
C2_Witness ==
    /\ pc = "done"
    /\ number_of_drones = 2
    /\ MaxSeq(bins) > OptimalMakespan(number_of_drones, jobs)
    /\ 3 * number_of_drones * MaxSeq(bins)
           = (4 * number_of_drones - 1) * OptimalMakespan(number_of_drones, jobs)

\* The origin of an output point is the input point in whose turn it was
\* emitted: with a cap >= 1, input point n emits OutputCount(n) points
\* (ceil(demand / cap), or one for a demand of 0), in input order. PartsOf is
\* the demands of the output points of input point n.
OutputCount(n) ==
    LET point == At(orig_points, n)
    IN IF point.Population > 0
       THEN (point.Population + max_point_capacity - 1) \div max_point_capacity
       ELSE 1

RECURSIVE OutputsBefore(_)
OutputsBefore(n) == IF n = 0 THEN 0 ELSE OutputsBefore(n - 1) + OutputCount(n - 1)

Origin(k) ==
    CHOOSE n \in Range0(Len(orig_points)) :
        OutputsBefore(n) < k /\ k <= OutputsBefore(n) + OutputCount(n)

PartsOf(res, n) ==
    [k \in 1 .. OutputCount(n) |-> res.points[OutputsBefore(n) + k].Population]

MinSeq(list) == CHOOSE m \in {list[k] : k \in 1 .. Len(list)} :
                    \A k \in 1 .. Len(list) : m <= list[k]

\* C3: with a cap C >= 1 the call returns, and for every input point of demand
\* D > 0 the demands of the output points emitted for it sum to D, each is
\* <= C, and the largest and the smallest differ by at most 1.
C3_PartsSumToDemandWithinCap ==
    (split_result # NoCall /\ max_point_capacity >= 1) =>
        /\ split_result.status = "ok"
        /\ Len(split_result.points) = OutputsBefore(Len(orig_points))
        /\ \A n \in Range0(Len(orig_points)) :
              At(orig_points, n).Population > 0 =>
                  LET parts == PartsOf(split_result, n)
                  IN /\ Len(parts) >= 1
                     /\ SumSeq(parts) = At(orig_points, n).Population
                     /\ \A k \in 1 .. Len(parts) : parts[k] <= max_point_capacity
                     /\ MaxSeq(parts) - MinSeq(parts) <= 1

\* C3's case: a point whose demand exceeds the cap and is no multiple of the
\* number of parts has been split (5 with cap 2: 2, 2, 1).
C3_Witness ==
    /\ split_result # NoCall
    /\ max_point_capacity >= 2
    /\ \E n \in Range0(Len(orig_points)) :
          /\ At(orig_points, n).Population > max_point_capacity
          /\ Len(PartsOf(split_result, n)) >= 3
          /\ MaxSeq(PartsOf(split_result, n)) # MinSeq(PartsOf(split_result, n))

IsSymmetric(m) == \A r, c \in 1 .. Len(m) : m[r][c] = m[c][r]

HasZeroDiagonal(m) == \A r \in 1 .. Len(m) : m[r][r] = 0

\* C4: in a returned result with a cap >= 1 every entry [a][b] of the expanded
\* matrix is the input matrix's entry [origin(a)][origin(b)]; so two siblings
\* of one origin are at distance 0 when the input diagonal is 0, and the
\* expanded matrix is symmetric with a zero diagonal when the input matrix is.
C4_ExpandedEntriesAreOriginEntries ==
    (split_result # NoCall /\ max_point_capacity >= 1) =>
        LET m == split_result.distance_matrix
            count == Len(split_result.points)
        IN /\ Len(m) = count
           /\ \A a \in 1 .. count : Len(m[a]) = count
           /\ \A a, b \in 1 .. count :
                 m[a][b] = MatGet(orig_distance_matrix, Origin(a), Origin(b))
           /\ HasZeroDiagonal(orig_distance_matrix) =>
                 \A a, b \in 1 .. count : Origin(a) = Origin(b) => m[a][b] = 0
           /\ (IsSymmetric(orig_distance_matrix)
                 /\ HasZeroDiagonal(orig_distance_matrix)) =>
                 IsSymmetric(m) /\ HasZeroDiagonal(m)

\* C4's case: two points at different places, one of them split into siblings,
\* expanded from a symmetric matrix with a zero diagonal.
C4_Witness ==
    /\ split_result # NoCall
    /\ max_point_capacity >= 1
    /\ Len(orig_points) = 2
    /\ IsSymmetric(orig_distance_matrix)
    /\ HasZeroDiagonal(orig_distance_matrix)
    /\ MatGet(orig_distance_matrix, 0, 1) > 0
    /\ \E a, b \in 1 .. Len(split_result.points) : a # b /\ Origin(a) = Origin(b)

\* C5: the matrix compute_distance_matrix returns is N x N, symmetric, zero on
\* the diagonal and zero for every two points of identical latitude and
\* longitude, for which the geodesic function was not called; every pair
\* i < j was written, in both cells.
C5_MatrixSymmetricZeroDiagonal ==
    /\ \A pair \in geodesic_calls :
          CoordinatesDiffer(At(all_points, pair[1]), At(all_points, pair[2]))
    /\ geo_pc = "done" =>
          LET N == Len(all_points)
          IN /\ Len(distance_matrix) = N
             /\ \A r \in 1 .. N : Len(distance_matrix[r]) = N
             /\ IsSymmetric(distance_matrix)
             /\ HasZeroDiagonal(distance_matrix)
             /\ \A r, c \in Range0(N) :
                   (/\ r # c
                    /\ At(all_points, r).lat = At(all_points, c).lat
                    /\ At(all_points, r).lon = At(all_points, c).lon)
                   => MatGet(distance_matrix, r, c) = 0
             /\ \A r, c \in Range0(N) : r < c =>
                   <<r, c>> \in written /\ <<c, r>> \in written

\* C5's case: the matrix of three points has been returned, two of them at
\* one place and one elsewhere.
C5_Witness ==
    /\ geo_pc = "done"
    /\ Len(all_points) = 3
    /\ \E r, c \in Range0(3) : r # c /\ At(all_points, r) = At(all_points, c)
    /\ \E r, c \in Range0(3) : MatGet(distance_matrix, r, c) > 0

\* a call that got its distance matrix
Looked(call) == call.status \notin {"none", "UnpicklingError"}

\* C6: of two successive calls with use_cache on the same points, the second
\* has the same distance matrix as the first and did not compute it.
C6_SecondCallReadsTheFile ==
    (/\ Looked(prev_call) /\ Looked(last_call)
     /\ prev_call.use_cache /\ last_call.use_cache
     /\ prev_call.all_points = last_call.all_points)
    => /\ last_call.distance_matrix = prev_call.distance_matrix
       /\ ~last_call.computed

\* C6's case: a call that computed and stored the matrix of two points is
\* followed by a call on the same points, which returned.
C6_Witness ==
    /\ prev_call.status = "ok" /\ last_call.status = "ok"
    /\ prev_call.use_cache /\ last_call.use_cache
    /\ prev_call.computed
    /\ prev_call.all_points = last_call.all_points
    /\ Len(last_call.all_points) = 2

\* C7: a call with use_cache that returned has the distance matrix of its own
\* point list, and it took the matrix from the file only if the file was
\* computed from that same point list.
C7_CacheKeyedByPointList ==
    (last_call.status = "ok" /\ last_call.use_cache) =>
        /\ last_call.distance_matrix = ComputeDistanceMatrix(last_call.all_points)
        /\ ~last_call.computed => cache_file.from = last_call.all_points

\* C8: two callers at once on an empty cache: at most one of them computes
\* the matrix, and a caller that did not compute has the stored matrix.
C8_ComputedAtMostOnce ==
    /\ Cardinality({c \in Callers : caller_computed[c]}) <= 1
    /\ \A c \in Callers :
          (~caller_computed[c] /\ caller_pc[c] \in {"split", "done"}) =>
              /\ cache_file.kind = "pickle"
              /\ caller_matrix[c] = cache_file.matrix

\* C9: when lpt has returned for more drones than jobs, every drone
\* 0 .. W-1 has an entry in the assignment, at least W - len(jobs) of them
\* with an empty list and load 0, and every job is in exactly one list.
C9_EveryDroneHasAnEntry ==
    (pc = "done" /\ number_of_drones > Len(jobs)) =>
        /\ \A w \in Range0(number_of_drones) : DictHas(jobs_assignment, w)
        /\ Cardinality({w \in Range0(number_of_drones) :
                           /\ DictHas(jobs_assignment, w)
                           /\ DictGet(jobs_assignment, w) = <<>>
                           /\ At(bins, w) = 0})
               >= number_of_drones - Len(jobs)
        /\ \A job \in Range0(Len(jobs)) : TimesAssigned(jobs_assignment, job) = 1

\* the durations in the order lpt processes the jobs
ProcessedDurations == DurationsOf(original_indices)

NonIncreasing(list) == \A k \in 1 .. Len(list) - 1 : list[k] >= list[k + 1]

\* C10 as claimed: the jobs are processed in non-increasing duration, and jobs
\* of equal duration in ascending order of their original index.
C10_TiesInAscendingIndex ==
    pc \in {"loop", "done"} =>
        /\ NonIncreasing(ProcessedDurations)
        /\ \A k, n \in 1 .. Len(original_indices) :
              (k < n /\ ProcessedDurations[k] = ProcessedDurations[n])
              => original_indices[k] < original_indices[n]

\* C10 as amended: the processing order is a permutation of the job indices
\* in non-increasing duration, and the duration lpt adds at step k is the
\* duration of the job index it records at step k, which is the k-th largest
\* duration of the list; the order among equal durations is not fixed.
C10_NonIncreasingDurations ==
    pc \in {"loop", "done"} =>
        /\ Len(original_indices) = Len(jobs)
        /\ {original_indices[k] : k \in 1 .. Len(original_indices)}
               = Range0(Len(jobs))
        /\ NonIncreasing(ProcessedDurations)
        /\ sorted_jobs = ProcessedDurations

\* C10's case: lpt is scanning a list that holds a duration twice and a
\* larger and a smaller one, and takes the job of higher index first.
C10_Witness ==
    /\ pc = "done"
    /\ \E k, n \in 1 .. Len(original_indices) :
          /\ k < n
          /\ ProcessedDurations[k] = ProcessedDurations[n]
          /\ original_indices[k] > original_indices[n]
    /\ \E k \in 1 .. Len(jobs) - 1 : ProcessedDurations[k] > ProcessedDurations[k + 1]

\* the number of k in 1 .. len(stops)-1 for which stop k-1 and stop k differ
\* in latitude or in longitude
Transitions(stops) ==
    Cardinality({k \in 1 .. Len(stops) - 1 :
                    \/ stops[k].lat # stops[k + 1].lat
                    \/ stops[k].lon # stops[k + 1].lon})

\* C11: the list compute_jobs_durations builds holds, for the routes scanned
\* so far and in their order, distance / speed + n * dwell with n the number
\* of consecutive stops that differ in latitude or longitude (speed 60 km/h,
\* so 3600 * distance = 60000 * travel time); when it returns there is one
\* duration for every route.
C11_TravelPlusDwellPerTransition ==
    tours_pc \in {"loop", "done"} =>
        /\ Len(jobs) <= Len(tours.routes)
        /\ tours_pc = "done" => Len(jobs) = Len(tours.routes)
        /\ \A k \in 1 .. Len(jobs) :
              LET route == tours.routes[k]
                  travel == jobs[k] - Transitions(route.stops) * stop_time_sec
              IN /\ travel >= 0
                 /\ travel * speed_km_h * 1000 = route.distance * 60 * 60

\* C11's case: the durations of two routes have been returned, the first with
\* three stops of which the first two are at one place and the third differs
\* from them in longitude only (one transition), the second with one stop
\* (none), at different distances.
C11_Witness ==
    /\ tours_pc = "done"
    /\ Len(tours.routes) = 2
    /\ LET first == tours.routes[1]
           second == tours.routes[2]
       IN /\ Len(first.stops) = 3
          /\ first.stops[1] = first.stops[2]
          /\ first.stops[3].lat = first.stops[2].lat
          /\ first.stops[3].lon # first.stops[2].lon
          /\ first.distance > 0
          /\ jobs[1] = TravelTime(first.distance) + stop_time_sec
          /\ Len(second.stops) = 1
          /\ second.distance = 0
          /\ jobs[2] = 0

\* every value is 0 or 1 up to noise below 0.2 (two tenths)
BinaryUpToNoise(values) ==
    \A index \in DOMAIN values : values[index] < 2 \/ values[index] > 8

\* the covering constraint: every job is on exactly one drone
Covered(values) ==
    \A job \in Range0(Len(jobs_durations)) :
        Cardinality({w \in Range0(number_of_drones) :
                        values[<<w, job>>] > 8}) = 1

\* C12: when run_IP has returned on a solver outcome of 0/1 values up to noise
\* below 0.2 that satisfies the covering constraint, every job index is in
\* exactly one list, every drone 0 .. W-1 has an entry, there is a load for
\* every drone, and the load of a drone is the sum of the durations of the
\* jobs in its list.
C12_ThresholdReadsEveryJobOnce ==
    (ip_pc = "done" /\ BinaryUpToNoise(jobs_to_drones) /\ Covered(jobs_to_drones)) =>
        /\ \A job \in Range0(Len(jobs_durations)) :
              TimesAssigned(jobs_assignment, job) = 1
        /\ DictKeys(jobs_assignment) = Range0(number_of_drones)
        /\ Len(jobs_assignment) = number_of_drones
        /\ Len(bins) = number_of_drones
        /\ \A w \in Range0(number_of_drones) :
              LET list == DictGet(jobs_assignment, w)
              IN /\ \A k \in 1 .. Len(list) : list[k] \in Range0(Len(jobs_durations))
                 /\ At(bins, w) = SumSeq([k \in 1 .. Len(list) |->
                                             At(jobs_durations, list[k])])

\* C12's case: run_IP has returned for two drones and two jobs of different
\* durations, both on drone 1, one read from a value of 0.9 next to a value of
\* 0.1 for the other drone; drone 0 has an empty list and load 0.
C12_Witness ==
    /\ ip_pc = "done"
    /\ number_of_drones = 2
    /\ jobs_durations = <<1, 2>>
    /\ jobs_to_drones[<<1, 0>>] = 9
    /\ jobs_to_drones[<<0, 0>>] = 1
    /\ DictGet(jobs_assignment, 0) = <<>>
    /\ DictGet(jobs_assignment, 1) = <<0, 1>>
    /\ bins = <<0, 3>>

\* the demands of the output points of a result that name input point n as
\* their origin
DemandsFrom(res, n) ==
    [k \in 1 .. Len(res.points) |->
        IF res.indices_of_orig_points[k] = n THEN res.points[k].Population ELSE 0]

\* C13: a call with a cap < 1 fails and returns no points and no matrix, and
\* no call returns a result in which an input point of positive demand is
\* missing or its demand is not the sum of the demands of its output points.
C13_CapBelowOneIsRejected ==
    split_result # NoCall =>
        /\ max_point_capacity < 1 =>
              /\ split_result.status # "ok"
              /\ split_result.points = <<>>
              /\ split_result.distance_matrix = <<>>
        /\ split_result.status = "ok" =>
              \A n \in Range0(Len(orig_points)) :
                  At(orig_points, n).Population > 0 =>
                      /\ \E k \in 1 .. Len(split_result.points) :
                            split_result.indices_of_orig_points[k] = n
                      /\ SumSeq(DemandsFrom(split_result, n))
                             = At(orig_points, n).Population

\* C14: a call with use_cache that finds the cache file missing or unreadable
\* computes the matrix and does not end in the error of the read.
C14_UnreadableCacheIsAMiss ==
    [][(cache_file.kind # "pickle" /\ last_call'.use_cache) =>
          /\ last_call'.status # "UnpicklingError"
          /\ last_call'.computed
          /\ last_call'.distance_matrix
                 = ComputeDistanceMatrix(last_call'.all_points)]_vars

\* the list of drone w in the dict d, empty when w has no entry
ListOf(d, w) == IF DictHas(d, w) THEN DictGet(d, w) ELSE <<>>

\* C15: the loads are all 0 when the scan starts, and every step of the scan
\* gives the current job to a drone w whose load is minimal among all drones
\* and lower than the load of every drone of lower index: the duration of the
\* job is added to the load of w, the job's index is appended to the list of
\* w, and no other load or list changes.
C15_JobGoesToFirstLeastLoadedDrone ==
    /\ []((pc = "loop" /\ i = 0) => bins = [k \in 1 .. number_of_drones |-> 0])
    /\ [][(pc = "loop" /\ i' = i + 1) =>
            \E w \in Range0(number_of_drones) :
                /\ \A v \in Range0(number_of_drones) : At(bins, w) <= At(bins, v)
                /\ \A v \in Range0(w) : At(bins, v) > At(bins, w)
                /\ bins' = [bins EXCEPT ![w + 1] = @ + At(sorted_jobs, i)]
                /\ DictHas(jobs_assignment', w)
                /\ DictGet(jobs_assignment', w)
                       = Append(ListOf(jobs_assignment, w), At(original_indices, i))
                /\ \A v \in Range0(number_of_drones) \ {w} :
                      /\ DictHas(jobs_assignment', v) = DictHas(jobs_assignment, v)
                      /\ ListOf(jobs_assignment', v) = ListOf(jobs_assignment, v)]_vars

\* C15's case: four jobs of one duration on two drones have been scanned, with
\* a tie of the loads at the first and at the third step: the loads are equal
\* (jobs 3,3,3,3: loads 6,6).
C15_Witness ==
    /\ pc = "done"
    /\ number_of_drones = 2
    /\ jobs = <<3, 3, 3, 3>>
    /\ bins = <<6, 6>>
    /\ Len(DictGet(jobs_assignment, 0)) = 2
    /\ Len(DictGet(jobs_assignment, 1)) = 2

\* C16: after every step of the scan and when lpt has returned, there is one
\* load per drone, the load of a drone is the sum of the durations jobs[j] of
\* the job indices j in its list (0 without a list), the duration added at
\* step k was the duration of the job index recorded at step k, and the loads
\* sum to the durations of the jobs processed so far.
C16_LoadIsSumOfListedDurations ==
    pc \in {"loop", "done"} =>
        /\ Len(bins) = number_of_drones
        /\ \A w \in Range0(number_of_drones) :
              At(bins, w) = SumSeq(DurationsOf(ListOf(jobs_assignment, w)))
        /\ \A k \in 1 .. i : sorted_jobs[k] = At(jobs, original_indices[k])
        /\ SumSeq(bins) = SumSeq(SubSeq(ProcessedDurations, 1, i))
        /\ pc = "done" => SumSeq(bins) = SumSeq(jobs)

\* C16's case: lpt is in the middle of the scan of a list that is not in
\* processing order and holds a duration twice, and a drone has two jobs.
C16_Witness ==
    /\ pc = "loop"
    /\ i >= 3
    /\ i < Len(jobs)
    /\ jobs # sorted_jobs
    /\ \E a, b \in 1 .. i : a # b /\ sorted_jobs[a] = sorted_jobs[b] /\ sorted_jobs[a] > 0
    /\ \E w \in Range0(number_of_drones) : Len(ListOf(jobs_assignment, w)) >= 2

\* C18: after every step of the scan and when lpt has returned, the k-th entry
\* of the dict (in insertion order) is the entry of drone k-1, so the drones
\* with an entry are a prefix of the drones; in main's report the k-th job
\* list is the list of drone k-1, whose load is the k-th load of the report.
C18_EntriesInDroneOrder ==
    pc \in {"loop", "done"} =>
        LET report == ScheduleReport(number_of_drones, jobs_assignment, bins)
        IN /\ \A k \in 1 .. Len(jobs_assignment) : jobs_assignment[k].key = k - 1
           /\ Len(report.jobs_assignment) <= Len(report.bins)
           /\ \A k \in 1 .. Len(report.jobs_assignment) :
                 /\ DictHas(jobs_assignment, k - 1)
                 /\ report.jobs_assignment[k] = DictGet(jobs_assignment, k - 1)
                 /\ report.bins[k] = SumSeq(DurationsOf(report.jobs_assignment[k]))

\* C18's case: lpt has returned for three drones and three jobs, two of them
\* of duration 0, which both went to drone 1: drones 0 and 1 have an entry,
\* drone 2 has none.
C18_Witness ==
    /\ pc = "done"
    /\ number_of_drones = 3
    /\ Len(jobs) = 3
    /\ Len(jobs_assignment) = 2
    /\ At(bins, 0) > 0
    /\ Len(DictGet(jobs_assignment, 1)) = 2

\* C17: a call with a cap >= 1 returns the output points in input order: input
\* point n of demand D > 0 is followed, after the output points of the input
\* points before it, by ceil(D / cap) output points with its coordinates and
\* origin n whose demands are in non-increasing order; an input point of
\* demand 0 gives one output point equal to it, so a depot at input index 0 is
\* at output index 0. A demand of 45 with cap 20 is split into 15, 15, 15.
C17_OutputInInputOrderLargerPartsFirst ==
    /\ NearSplit(45, MathCeil(45, 20)) = <<15, 15, 15>>
    /\ (split_result # NoCall /\ max_point_capacity >= 1) =>
          /\ split_result.status = "ok"
          /\ Len(split_result.points) = OutputsBefore(Len(orig_points))
          /\ Len(split_result.indices_of_orig_points) = Len(split_result.points)
          /\ \A n \in Range0(Len(orig_points)) :
                LET point == At(orig_points, n)
                    first == OutputsBefore(n) + 1
                    last == OutputsBefore(n) + OutputCount(n)
                IN /\ \A k \in first .. last :
                         /\ split_result.points[k].lat = point.lat
                         /\ split_result.points[k].lon = point.lon
                         /\ split_result.indices_of_orig_points[k] = n
                   /\ point.Population > 0 =>
                         /\ (OutputCount(n) - 1) * max_point_capacity < point.Population
                         /\ point.Population <= OutputCount(n) * max_point_capacity
                         /\ NonIncreasing(PartsOf(split_result, n))
                   /\ point.Population = 0 =>
                         /\ last = first
                         /\ split_result.points[first] = point
          /\ (orig_points # <<>> /\ orig_points[1].Population = 0) =>
                split_result.points[1] = orig_points[1]

\* C17's case: a depot of demand 0 at input index 0 and a point elsewhere of a
\* demand that is split into unequal parts (5 with cap 2: 2, 2, 1) have been
\* returned as four output points, the depot first.
C17_Witness ==
    /\ split_result # NoCall
    /\ max_point_capacity = 2
    /\ Len(orig_points) = 2
    /\ orig_points[1].Population = 0
    /\ orig_points[2].Population = 5
    /\ orig_points[2].lat # orig_points[1].lat
    /\ Len(split_result.points) = 4
    /\ PartsOf(split_result, 1) = <<2, 2, 1>>

====
